---- MODULE Spec2Model ----
(***************************************************************************)
(* simple-container-monitor (src/src/SimpleContainerMonitor.ts) as a state *)
(* machine.                                                                *)
(*                                                                         *)
(* One action is one turn of Node's event loop: the module body with the   *)
(* synchronous start of main(), a timer that fires, a response (or socket  *)
(* error) that arrives.  The handler runs, and with it every promise       *)
(* continuation it wakes, up to the next await on a timer or on the        *)
(* network.  Times are in milliseconds and measured from the present:      *)
(* Date.now() is 0, a time in the past is negative, a deadline positive,   *)
(* and as time passes every one of them moves back.  A past time is kept   *)
(* no further back than the program, or a property, can tell apart.        *)
(*                                                                         *)
(* Task 0 is main(): construction, cleanupOldBlocksWithMarker, setInterval *)
(* and the immediate pass.  Tasks 1.. are the runs of the setInterval      *)
(* callback.                                                               *)
(***************************************************************************)
EXTENDS Integers, Sequences, FiniteSets, TLC

\* ---------------------------------------------------------------- constants
MIN_INTERVAL == 350
FALLBACK_RETRY_SECONDS == 1
MS_PER_SECOND == 1000
null == 0
now == 0

\* ------------------------------------------------------------------- bounds
MaxCycles == 2          \* tasks: main's immediate pass and MaxCycles - 1 timer callbacks
MaxUpsets == 1          \* requests in one run that are not served well: answered 429 or with
                        \* an error status or an unparsable body, or ended by a socket error

Quantum == MIN_INTERVAL \div 2       \* the step of the clock
Tasks == 0 .. MaxCycles - 1

VARIABLES
    env,                    \* process.env: which of NOTION_TOKEN, NOTION_PAGE_ID are set
    running,                \* the process has not ended
    exitCode,               \* its exit status once it has
    pc,                     \* per task: the await it is suspended at
    intervalOn,             \* setInterval has registered the callback
    lastNotionRequestTime,  \* NotionPageUpdater.lastNotionRequestTime
    notionRequestQueue,     \* NotionPageUpdater.notionRequestQueue: the chained waits not yet elapsed
    queueDue,               \* when the timer of the queue's head is due
    req,                    \* per task: its makeNotionRequest call
    lastBlockId,            \* NotionPageUpdater.lastBlockId
    blocks,                 \* cleanupOldBlocksWithMarker: childrenResp.results
    idx,                    \* cleanupOldBlocksWithMarker: position of the for-loop
    slots,                  \* getAllContainerStats: per task, statsPromises
    stats,                  \* per task: the argument of updatePage
    doc,                    \* destination: the live top-level blocks of the page
    nextId,                 \* destination: the id the next created block gets
    docker,                 \* metrics source: the running containers
    doc0,                   \* history: the page as it was when the process started
    nSubmitted,             \* history: makeNotionRequest calls so far
    served,                 \* history: which call, by submission, was dispatched last
    lastDispatchAt,         \* history: when a request was last sent, first time or again
    lastDispatch,           \* history: the last dispatch, with its distance to the one before
    nRateLimited,           \* history: 429 responses so far
    nFaults,                \* history: failures so far
    lastOutcome,            \* history: the last response and what the channel made of it
    lastReissue,            \* history: the last re-issue after a 429
    sent,                   \* history: per task, the requests its updatePage call dispatched
    appended,               \* history: per task, the id of the block its append created
    started                 \* history: cycles started so far

vars == <<env, running, exitCode, pc, intervalOn, lastNotionRequestTime,
          notionRequestQueue, queueDue, req, lastBlockId, blocks, idx, slots, stats,
          doc, nextId, docker, doc0, nSubmitted, served, lastDispatchAt, lastDispatch,
          nRateLimited, nFaults, lastOutcome, lastReissue, sent, appended, started>>

\* ------------------------------------------------------------------ helpers
Max(a, b) == IF a >= b THEN a ELSE b
MinOf(S) == CHOOSE x \in S : \A y \in S : x <= y

\* The blocks of a set in the order the destination lists them.
RECURSIVE Listing(_)
Listing(S) ==
    IF S = {} THEN <<>>
    ELSE LET b == CHOOSE x \in S : \A y \in S : x.id <= y.id
         IN <<b>> \o Listing(S \ {b})

\* ------------------------------------------------- the destination's blocks
\* A child of a quote block: its type, whether its rich text includes
\* 'Managed by simple-container-monitor', and (a table) its rows after the header.
Child(type, sentinel, rows) == [type |-> type, sentinel |-> sentinel, rows |-> rows]

\* The quote block updatePage composes for a stats list (lines 184-236).
quoteBlock(st) ==
    [type |-> "quote", has_children |-> TRUE,
     children |-> << Child("paragraph", FALSE, <<>>),       \* Updated: <timestamp>
                     Child("table", FALSE, st),             \* formatContainerStatsAsTable(stats)
                     Child("paragraph", TRUE, <<>>) >>]     \* Managed by simple-container-monitor

Stored(id, b) == [id |-> id, type |-> b.type, has_children |-> b.has_children, children |-> b.children]

\* Blocks a page may hold when the process starts.
Foreign == Stored(1, [type |-> "quote", has_children |-> TRUE,
                      children |-> << Child("paragraph", FALSE, <<>>) >>])
Leftover == Stored(2, quoteBlock(<<>>))
Note == Stored(3, [type |-> "paragraph", has_children |-> FALSE, children |-> <<>>])

hasSentinel(b) == \E i \in DOMAIN b.children :
                      b.children[i].type = "paragraph" /\ b.children[i].sentinel
SentinelBlocks(d) == {b \in d : b.type = "quote" /\ hasSentinel(b)}
Live(d, id) == \E b \in d : b.id = id
BlockOf(d, id) == CHOOSE b \in d : b.id = id

\* -------------------------------------------------------------- Retry-After
\* A header value is its sequence of characters; <<>> is an absent header.
Digits == <<"0", "1", "2", "3", "4", "5", "6", "7", "8", "9">>
IsDigit(c) == \E d \in DOMAIN Digits : Digits[d] = c
DigitValue(c) == (CHOOSE d \in DOMAIN Digits : Digits[d] = c) - 1
NaN == <<>>

RECURSIVE ParseDigits(_, _, _)
ParseDigits(s, i, acc) ==
    IF i > Len(s) \/ ~IsDigit(s[i]) THEN acc
    ELSE ParseDigits(s, i + 1, acc * 10 + DigitValue(s[i]))

\* parseInt(s, 10) of an unsigned value: the longest prefix of digits, NaN
\* when there is none.  The result is <<n>>, or NaN.
parseInt(s) == IF s = <<>> \/ ~IsDigit(s[1]) THEN NaN ELSE <<ParseDigits(s, 1, 0)>>

\* parseInt(res.headers['retry-after'], 10) || 1  (line 104)
retryAfterWrong(h) == FALLBACK_RETRY_SECONDS
retryAfter(h) ==
    LET n == parseInt(h)
    IN IF n = NaN \/ n[1] = 0 THEN FALLBACK_RETRY_SECONDS ELSE n[1]

Absent == <<>>
HttpDate == <<"W", "e", "d", ",", " ", "2", "1">>
Headers == {Absent, <<"0">>, <<"2">>, HttpDate}

\* ------------------------------------------------------------ the channel
NoCall == [method |-> "", of |-> "", id |-> null]
Call(method, of, id) == [method |-> method, of |-> of, id |-> id]

\* since, delay, header: when the last 429 came in, the delay its timer was
\* set to, and its Retry-After header.
NoReq == [phase |-> "none", method |-> "", of |-> "", id |-> null,
          since |-> 0, delay |-> 0, header |-> Absent]

\* const wait = Math.max(0, lastNotionRequestTime + MIN_INTERVAL - now)  (line 74)
wait == Max(0, lastNotionRequestTime + MIN_INTERVAL - now)

\* notionRequestQueue = notionRequestQueue.then(() => setTimeout(resolve, wait))
\* (lines 77-79): the new wait is chained behind the ones not yet elapsed.
chainWrong(q, e) == <<e>> \o q
chain(q, e) == Append(q, e)

\* What the 'end' handler makes of a response (lines 99-117): JSON.parse comes
\* first and throws on a body that is no JSON; then the status decides.
\* status is the one the rejection carries, 0 when it carries none.
Settlement(then, status, delay) == [then |-> then, status |-> status, delay |-> delay]
settle(resp) ==
    IF ~resp.json THEN Settlement("reject", 0, 0)
    ELSE IF resp.status = 429
        THEN Settlement("retry", 0, retryAfter(resp.retryAfter) * MS_PER_SECOND)
    ELSE IF resp.status >= 400 THEN Settlement("reject", resp.status, 0)
    ELSE Settlement("resolve", 0, 0)

\* ------------------------------------------------------- the destination
\* What the destination may do with a request: serve it ("ok"), answer 429
\* ("rate"), answer a server error ("fail"); json tells whether the body it
\* sends parses.  "socket" is the request's 'error' event (line 120): no
\* response, the request is not served.
Outcome(kind, json, header) == [kind |-> kind, json |-> json, retryAfter |-> header]
Outcomes ==
    {Outcome(k, j, Absent) : k \in {"ok", "fail"}, j \in BOOLEAN}
    \cup {Outcome("rate", j, h) : j \in BOOLEAN, h \in Headers}
    \cup {Outcome("socket", FALSE, Absent)}
Faulty(o) == o.kind \in {"fail", "socket"} \/ ~o.json

Body(hasResults, results) == [hasResults |-> hasResults, results |-> results]
NoBody == Body(FALSE, <<>>)
Served(status, body, d, n, created) ==
    [status |-> status, body |-> body, doc |-> d, nextId |-> n, created |-> created]

PAGE_SIZE == 100
QUOTE_PAGE_SIZE == 20
FirstN(s, n) == SubSeq(s, 1, IF Len(s) < n THEN Len(s) ELSE n)

\* The destination serving request r (section 6 of the spec: append children,
\* delete block, list children) on document d.
Serve(r, o, d, n, st) ==
    IF o.kind = "rate" THEN Served(429, NoBody, d, n, null)
    ELSE IF o.kind # "ok" THEN Served(500, NoBody, d, n, null)
    ELSE IF r.method = "GET" /\ r.of = "page"
        THEN Served(200, Body(TRUE, FirstN(Listing(d), PAGE_SIZE)), d, n, null)
    ELSE IF r.method = "PATCH"
        THEN LET b == Stored(n, quoteBlock(st))
             IN Served(200, Body(TRUE, <<b>>), d \cup {b}, n + 1, n)
    ELSE IF ~Live(d, r.id) THEN Served(404, NoBody, d, n, null)
    ELSE IF r.method = "GET"
        THEN Served(200, Body(TRUE, FirstN(BlockOf(d, r.id).children, QUOTE_PAGE_SIZE)), d, n, null)
    ELSE Served(200, NoBody, d \ {BlockOf(d, r.id)}, n, null)

\* ----------------------------------------------------- the metrics source
\* A container as /containers/json lists it; a name is its characters.
Container(id, names) == [Id |-> id, Names |-> names]
Web == Container("c1", << <<"/", "w", "e", "b">> >>)
Db == Container("c2", << <<"/", "d", "b">>, <<"/", "w", "e", "b", "/", "d", "b">> >>)
Hosts == {<<>>, <<Web>>, <<Web, Db>>}

\* container.Names[0].replace(/^\//, '')  (line 280)
displayName(c) ==
    LET n == c.Names[1]
    IN IF n # <<>> /\ n[1] = "/" THEN Tail(n) ELSE n

\* A JavaScript number after Number(x.toFixed(2)): finite, in hundredths, or
\* one of the values that are not.
Num(kind, hundredths) == [kind |-> kind, hundredths |-> hundredths]

\* Number((n / d).toFixed(2)) for integers n >= 0, d >= 0 (lines 291, 294,
\* 298-299): a division by 0 gives Infinity, or NaN for 0 / 0; neither throws.
toFixed2(n, d) ==
    IF d = 0 THEN (IF n = 0 THEN Num("NaN", 0) ELSE Num("Infinity", 0))
    ELSE Num("finite", (2 * 100 * n + d) \div (2 * d))

\* What /containers/{id}/stats?stream=false delivers: a body that parses and
\* has the fields read, or not (socket error, no JSON, fields missing).
Snapshot(parses, total, pretotal, system, presystem, cpus, usage) ==
    [parses |-> parses,
     total_usage |-> total, pre_total_usage |-> pretotal,
     system_cpu_usage |-> system, pre_system_cpu_usage |-> presystem,
     online_cpus |-> cpus, usage |-> usage]
Lost == Snapshot(FALSE, 0, 0, 0, 0, 0, 0)
Busy == Snapshot(TRUE, 4, 3, 9, 6, 2, 1572864)        \* 66.67 %, 1.5 MB
Stalled == Snapshot(TRUE, 4, 3, 6, 6, 2, 1572864)     \* the system counter did not move
Snapshots == {Lost, Busy, Stalled}

\* An element of statsPromises: pending, resolved with null, or resolved with
\* a stat.  rank: how many of the cycle's stats requests had settled when
\* this one did, itself included.
Slot(state, name, cpu, mem, rank) ==
    [state |-> state, name |-> name, cpuUsage |-> cpu, memoryUsage |-> mem, rank |-> rank]
Pending == Slot("pending", "", Num("finite", 0), Num("finite", 0), 0)

\* getContainerStats (lines 284-305): the stat under the container's id, or
\* null when the request or a field access threw.
MB == 1024 * 1024
getContainerStats(containerId, snap, rank) ==
    IF ~snap.parses THEN Slot("null", "", Num("finite", 0), Num("finite", 0), rank)
    ELSE Slot("ok", containerId,
              toFixed2((snap.total_usage - snap.pre_total_usage) * snap.online_cpus * 100,
                       snap.system_cpu_usage - snap.pre_system_cpu_usage),
              toFixed2(snap.usage, MB), rank)

\* stats.filter(stat => stat !== null), each stat under its container's
\* name (lines 311, 315): the settled slots in the order of the listing.
Stat(name, slot) == [name |-> name, cpuUsage |-> slot.cpuUsage, memoryUsage |-> slot.memoryUsage]
RECURSIVE collectedWrong(_, _, _)
collectedWrong(cs, sl, i) ==
    IF i > Len(cs) THEN <<>>
    ELSE collectedWrong(cs, sl, i + 1)
         \o (IF sl[i].state = "ok" THEN <<Stat(displayName(cs[i]), sl[i])>> ELSE <<>>)
RECURSIVE collected(_, _, _)
collected(cs, sl, i) ==
    IF i > Len(cs) THEN <<>>
    ELSE (IF sl[i].state = "ok" THEN <<Stat(displayName(cs[i]), sl[i])>> ELSE <<>>)
         \o collected(cs, sl, i + 1)

\* ------------------------------------------------------------- the tasks
\* Where a task stands after a handler ran: its next await (pc), the request
\* it has just made (call), and the fields the handler wrote.
Cur(t) == [pc |-> pc[t], call |-> NoCall, lastBlockId |-> lastBlockId, blocks |-> blocks,
           idx |-> idx, interval |-> intervalOn, slots |-> slots[t], stats |-> stats[t],
           started |-> started]

\* Either catch: main's (line 342) or the callback's (line 333).  The error
\* is logged and the task ends; nothing else is touched.
caughtWrong(t, where) == [Cur(t) EXCEPT !.pc = where, !.interval = FALSE]
caught(t, where) == [Cur(t) EXCEPT !.pc = where]

\* updatePage up to its first await (lines 167-174, or 167-239 with no handle).
updatePage(t, s, st) ==
    IF s.lastBlockId # null
    THEN [s EXCEPT !.pc = "delete", !.stats = st,
                   !.call = Call("DELETE", "block", s.lastBlockId)]
    ELSE [s EXCEPT !.pc = "append", !.stats = st, !.call = Call("PATCH", "page", null)]

\* updatePage after the delete settled, either way (lines 175-239).
afterDeleteWrong(t, ok) ==
    IF ok THEN [Cur(t) EXCEPT !.pc = "append", !.lastBlockId = null,
                              !.call = Call("PATCH", "page", null)]
    ELSE caught(t, "failedSync")
afterDelete(t, ok) ==
    [Cur(t) EXCEPT !.pc = "append", !.lastBlockId = null, !.call = Call("PATCH", "page", null)]

\* updatePage after the append settled (lines 239-245).
afterAppendWrong(t, ok, body) ==
    IF ~ok THEN caught(t, "failedSync") ELSE [Cur(t) EXCEPT !.pc = "done"]
afterAppend(t, ok, body) ==
    IF ~ok THEN caught(t, "failedSync")
    ELSE IF body.hasResults /\ Len(body.results) > 0
        THEN [Cur(t) EXCEPT !.pc = "done", !.lastBlockId = body.results[Len(body.results)].id]
    ELSE [Cur(t) EXCEPT !.pc = "done"]

\* getAllContainerStats up to its first await (line 308, getContainers).
getAllContainerStats(t, s) == [s EXCEPT !.pc = "list", !.started = s.started + 1]

\* getAllContainerStats after the listing settled (lines 308-314), and on
\* into updatePage when there is no container to wait for.
afterListing(t, ok) ==
    IF ~ok THEN caught(t, "failedCollect")
    ELSE IF docker = <<>> THEN updatePage(t, Cur(t), <<>>)
    ELSE [Cur(t) EXCEPT !.pc = "stats", !.slots = [i \in DOMAIN docker |-> Pending]]

\* One stats request settled (lines 284-305, 311); the last one resolves
\* Promise.all and the cycle goes on into updatePage (lines 314-315, 332/340).
afterStats(t, i, snap) ==
    LET settled == Cardinality({j \in DOMAIN slots[t] : slots[t][j] # Pending})
        sl == [slots[t] EXCEPT ![i] = getContainerStats(docker[i].Id, snap, settled + 1)]
    IN IF \E j \in DOMAIN sl : sl[j] = Pending
       THEN [Cur(t) EXCEPT !.slots = sl]
       ELSE updatePage(t, [Cur(t) EXCEPT !.slots = sl], collected(docker, sl, 1))

\* main after cleanupOldBlocksWithMarker returned (lines 329-339):
\* setInterval, then the immediate pass.
register(t, s) == getAllContainerStats(t, [s EXCEPT !.interval = TRUE])

\* cleanupOldBlocksWithMarker: the for-loop from position i (lines 44-47, 60).
cleanupLoop(t, s, bs, i) ==
    LET quotes == {j \in i .. Len(bs) : bs[j].type = "quote" /\ bs[j].has_children}
    IN IF quotes = {} THEN register(t, [s EXCEPT !.blocks = bs, !.idx = Len(bs) + 1])
       ELSE [s EXCEPT !.pc = "cleanKids", !.blocks = bs, !.idx = MinOf(quotes),
                      !.call = Call("GET", "block", bs[MinOf(quotes)].id)]

\* hasMarker (lines 49-54)
hasMarkerWrong(results) == results # <<>>
hasMarker(results) ==
    \E i \in DOMAIN results : results[i].type = "paragraph" /\ results[i].sentinel

\* cleanupOldBlocksWithMarker after one of its requests settled.
\* (best effort: on to the timer and the immediate pass whatever the outcome)
afterCleanupWrong(t, ok, body) == register(t, Cur(t))
afterCleanup(t, ok, body) ==
    IF ~ok THEN caught(t, "failedStart")
    ELSE IF pc[t] = "cleanList"
        THEN IF ~body.hasResults THEN register(t, Cur(t))              \* line 42
             ELSE cleanupLoop(t, Cur(t), body.results, 1)
    ELSE IF pc[t] = "cleanKids"
        THEN IF ~body.hasResults THEN cleanupLoop(t, Cur(t), blocks, idx + 1)   \* line 48
             ELSE IF hasMarker(body.results)
                 THEN [Cur(t) EXCEPT !.pc = "cleanDel",
                                     !.call = Call("DELETE", "block", blocks[idx].id)]
             ELSE cleanupLoop(t, Cur(t), blocks, idx + 1)
    ELSE cleanupLoop(t, Cur(t), blocks, idx + 1)                       \* after the delete

\* The continuation of the task whose makeNotionRequest call settled.
afterRequest(t, ok, body) ==
    IF pc[t] = "delete" THEN afterDelete(t, ok)
    ELSE IF pc[t] = "append" THEN afterAppend(t, ok, body)
    ELSE afterCleanup(t, ok, body)

\* ------------------------------------------------------------ the actions
Ended == {"done", "failedStart", "failedCollect", "failedSync"}
InSync == {"delete", "append"}
InCycle == {"list", "stats", "delete", "append"}

\* A dispatch: how long after the dispatch before it (MIN_INTERVAL stands
\* for that or longer, and for no dispatch before), whether it sends the
\* request again after a 429, and whether the call was made while an earlier
\* call was still waiting to be dispatched.
Dispatched(reissue, behind) ==
    {[gap |-> now - lastDispatchAt, reissue |-> reissue, behind |-> behind]}
SentBy(t) == IF pc[t] \in InSync
             THEN [sent EXCEPT ![t] = Append(@, Call(req[t].method, req[t].of, req[t].id))]
             ELSE sent

\* makeNotionRequest up to its await (lines 70-80).  The timer of a wait is
\* set when the wait before it has elapsed: at once when none is pending.
makeNotionRequest(t, c) ==
    /\ notionRequestQueue' =
           chain(notionRequestQueue, [task |-> t, wait |-> wait, seq |-> nSubmitted + 1,
                                      behind |-> notionRequestQueue # <<>>])
    /\ queueDue' = IF notionRequestQueue = <<>> THEN now + wait ELSE queueDue
    /\ req' = [req EXCEPT ![t] = [NoReq EXCEPT !.phase = "queued", !.method = c.method,
                                                !.of = c.of, !.id = c.id]]
    /\ nSubmitted' = nSubmitted + 1

\* The state after task t's handler ran to its next await.
Apply(t, s) ==
    /\ pc' = [pc EXCEPT ![t] = s.pc]
    /\ lastBlockId' = s.lastBlockId
    /\ blocks' = s.blocks
    /\ idx' = s.idx
    /\ intervalOn' = s.interval
    /\ slots' = [slots EXCEPT ![t] = s.slots]
    /\ stats' = [stats EXCEPT ![t] = s.stats]
    /\ started' = s.started
    /\ IF s.call = NoCall
       THEN /\ req' = [req EXCEPT ![t] = NoReq]
            /\ UNCHANGED <<notionRequestQueue, queueDue, nSubmitted>>
       ELSE makeNotionRequest(t, s.call)

\* The module body (lines 347-353) and main() up to its first await: the
\* token check, the constructors (lines 26-35), and cleanupOldBlocksWithMarker
\* up to its listing request (lines 39-41).
BootWrong ==
    /\ running /\ pc[0] = "boot"
    /\ Apply(0, [Cur(0) EXCEPT !.pc = "cleanList", !.call = Call("GET", "page", null)])
    /\ UNCHANGED <<env, running, exitCode, lastNotionRequestTime, doc, nextId, docker, doc0,
                   lastDispatchAt, lastDispatch, served, nRateLimited, nFaults, lastOutcome,
                   lastReissue, sent, appended>>
Boot ==
    /\ running /\ pc[0] = "boot"
    /\ IF ~env.NOTION_TOKEN
       THEN /\ running' = FALSE
            /\ exitCode' = 1
            /\ UNCHANGED <<pc, intervalOn, notionRequestQueue, queueDue, req, lastBlockId,
                           blocks, idx, slots, stats, nSubmitted, started>>
       ELSE /\ UNCHANGED <<running, exitCode>>
            /\ IF ~env.NOTION_PAGE_ID
               THEN Apply(0, caught(0, "failedStart"))
               ELSE Apply(0, [Cur(0) EXCEPT !.pc = "cleanList",
                                            !.call = Call("GET", "page", null)])
    /\ UNCHANGED <<env, lastNotionRequestTime, doc, nextId, docker, doc0, lastDispatchAt, lastDispatch,
                   served, nRateLimited, nFaults, lastOutcome, lastReissue, sent, appended>>

\* Nothing is left that could wake the process: main() has returned through
\* its catch before setInterval, no timer and no request is pending.  Node
\* ends the process with status 0 (line 353: nothing sets another).
Drained ==
    /\ running /\ pc[0] = "failedStart" /\ ~intervalOn
    /\ notionRequestQueue = <<>> /\ \A t \in Tasks : req[t].phase = "none"
    /\ running' = FALSE
    /\ exitCode' = 0
    /\ UNCHANGED <<env, pc, intervalOn, lastNotionRequestTime, notionRequestQueue,
                   queueDue, req, lastBlockId, blocks, idx, slots, stats, doc, nextId,
                   docker, doc0, nSubmitted, lastDispatchAt, lastDispatch, served, nRateLimited, nFaults,
                   lastOutcome, lastReissue, sent, appended, started>>

\* The timer of the queue's head fires (line 78); the call that awaits it
\* goes on (lines 80-130): it stamps lastNotionRequestTime and sends.
Dispatch ==
    /\ running /\ notionRequestQueue # <<>> /\ now >= queueDue
    /\ LET e == Head(notionRequestQueue)
           rest == Tail(notionRequestQueue)
       IN /\ notionRequestQueue' = rest
          /\ queueDue' = IF rest = <<>> THEN 0 ELSE now + Head(rest).wait
          /\ lastNotionRequestTime' = now
          /\ req' = [req EXCEPT ![e.task].phase = "sent"]
          /\ lastDispatchAt' = now
          /\ lastDispatch' = Dispatched(FALSE, e.behind)
          /\ served' = e.seq
          /\ sent' = SentBy(e.task)
    /\ UNCHANGED <<env, running, exitCode, pc, intervalOn, lastBlockId, blocks, idx,
                   slots, stats, doc, nextId, docker, doc0, nSubmitted, nRateLimited,
                   nFaults, lastOutcome, lastReissue, appended, started>>

\* The destination answers task t's request, or the socket fails, and the
\* request's handlers run (lines 96-120), then the task that awaited it.
Respond(t, o) ==
    /\ running /\ req[t].phase = "sent"
    /\ (o.kind = "rate" \/ Faulty(o)) => nRateLimited + nFaults < MaxUpsets
    /\ LET srv == Serve(req[t], o, doc, nextId, stats[t])
           resp == [status |-> srv.status, json |-> o.json, retryAfter |-> o.retryAfter]
           s == IF o.kind = "socket" THEN Settlement("reject", 0, 0) ELSE settle(resp)
       IN /\ doc' = srv.doc
          /\ nextId' = srv.nextId
          /\ appended' = IF srv.created # null THEN [appended EXCEPT ![t] = srv.created]
                         ELSE appended
          /\ nRateLimited' = nRateLimited + (IF o.kind = "rate" THEN 1 ELSE 0)
          /\ nFaults' = nFaults + (IF Faulty(o) /\ o.kind # "rate" THEN 1 ELSE 0)
          /\ lastOutcome' = {[status |-> IF o.kind = "socket" THEN 0 ELSE srv.status,
                              then |-> s.then, carried |-> s.status]}
          /\ IF s.then = "retry"
             THEN /\ req' = [req EXCEPT ![t].phase = "backoff", ![t].since = now,
                                        ![t].delay = s.delay, ![t].header = o.retryAfter]
                  /\ UNCHANGED <<pc, intervalOn, notionRequestQueue, queueDue, lastBlockId,
                                 blocks, idx, slots, stats, nSubmitted, started>>
             ELSE Apply(t, afterRequest(t, s.then = "resolve", srv.body))
    /\ UNCHANGED <<env, running, exitCode, lastNotionRequestTime, docker, doc0,
                   lastDispatchAt, lastDispatch, served, lastReissue, sent>>

\* The timer set on a 429 fires and makeRequest() runs again (lines 105-107).
Reissue(t) ==
    /\ running /\ req[t].phase = "backoff" /\ now >= req[t].since + req[t].delay
    /\ req' = [req EXCEPT ![t].phase = "sent", ![t].since = 0, ![t].delay = 0,
                           ![t].header = Absent]
    /\ lastDispatchAt' = now
    /\ lastDispatch' = Dispatched(TRUE, FALSE)
    /\ lastReissue' = {[after |-> now - req[t].since, header |-> req[t].header]}
    /\ sent' = SentBy(t)
    /\ UNCHANGED <<env, running, exitCode, pc, intervalOn, lastNotionRequestTime,
                   notionRequestQueue, queueDue, lastBlockId, blocks, idx, slots, stats,
                   doc, nextId, docker, doc0, nSubmitted, served, nRateLimited, nFaults,
                   lastOutcome, appended, started>>

\* The setInterval callback starts (lines 329-331): the next cycle begins
\* with getAllContainerStats.  The period is 60 s and no request of a cycle
\* has a timeout, so where the cycles before it stand when the timer fires
\* is open.  atOnce is the number of cycles the environment lets be in
\* progress together: 1 when every cycle ends within the period.
IntervalFire(t, atOnce) ==
    /\ running /\ intervalOn
    /\ t > 0 /\ pc[t] = "idle" /\ \A u \in 1 .. t - 1 : pc[u] # "idle"
    /\ Cardinality({u \in Tasks : pc[u] \in InCycle}) < atOnce
    /\ Apply(t, getAllContainerStats(t, Cur(t)))
    /\ UNCHANGED <<env, running, exitCode, lastNotionRequestTime, doc, nextId, docker,
                   doc0, lastDispatchAt, lastDispatch, served, nRateLimited, nFaults, lastOutcome,
                   lastReissue, sent, appended>>

\* The container listing settles (makeDockerRequest, lines 251-274, 277).
ListingSettles(t, ok) ==
    /\ running /\ pc[t] = "list"
    /\ ~ok => nRateLimited + nFaults < MaxUpsets
    /\ nFaults' = nFaults + (IF ok THEN 0 ELSE 1)
    /\ Apply(t, afterListing(t, ok))
    /\ UNCHANGED <<env, running, exitCode, lastNotionRequestTime, doc, nextId, docker,
                   doc0, lastDispatchAt, lastDispatch, served, nRateLimited, lastOutcome, lastReissue, sent,
                   appended>>

\* The stats request of the i-th listed container settles (lines 284-305).
StatsSettle(t, i, snap) ==
    /\ running /\ pc[t] = "stats"
    /\ i \in DOMAIN slots[t] /\ slots[t][i] = Pending
    /\ ~snap.parses => nRateLimited + nFaults < MaxUpsets
    /\ nFaults' = nFaults + (IF snap.parses THEN 0 ELSE 1)
    /\ Apply(t, afterStats(t, i, snap))
    /\ UNCHANGED <<env, running, exitCode, lastNotionRequestTime, doc, nextId, docker,
                   doc0, lastDispatchAt, lastDispatch, served, nRateLimited, lastOutcome, lastReissue, sent,
                   appended>>

\* Time passes: every time kept moves one quantum back.  A timer that is due
\* fires before more time passes (the handlers are short; nothing holds the
\* event loop for a quantum).
Earlier(at, floor) == Max(at - Quantum, floor)
TimerDue ==
    \/ notionRequestQueue # <<>> /\ now >= queueDue
    \/ \E t \in Tasks : req[t].phase = "backoff" /\ now >= req[t].since + req[t].delay
Tick ==
    /\ running /\ ~TimerDue
    /\ lastNotionRequestTime' = Earlier(lastNotionRequestTime, now - MIN_INTERVAL)
    /\ queueDue' = Earlier(queueDue, now)
    /\ req' = [t \in Tasks |-> [req[t] EXCEPT !.since = Earlier(@, now - req[t].delay)]]
    /\ lastDispatchAt' = Earlier(lastDispatchAt, now - MIN_INTERVAL)
    /\ UNCHANGED <<env, running, exitCode, pc, intervalOn, notionRequestQueue, lastBlockId,
                   blocks, idx, slots, stats, doc, nextId, docker, doc0, nSubmitted, served,
                   lastDispatch, nRateLimited, nFaults, lastOutcome, lastReissue, sent,
                   appended, started>>

\* ------------------------------------------------------ the specifications
Settings == [NOTION_TOKEN : BOOLEAN, NOTION_PAGE_ID : BOOLEAN]
Pages == {{}, {Foreign, Leftover, Note}}

InitIn(envs, pages, hosts) ==
    /\ env \in envs
    /\ doc \in pages
    /\ docker \in hosts
    /\ doc0 = doc
    /\ nextId = 1 + Cardinality({Foreign, Leftover, Note})
    /\ running = TRUE
    /\ exitCode = 0
    /\ pc = [t \in Tasks |-> IF t = 0 THEN "boot" ELSE "idle"]
    /\ intervalOn = FALSE
    /\ lastNotionRequestTime = now - MIN_INTERVAL     \* 0, on a clock that reads Date.now()
    /\ notionRequestQueue = <<>>
    /\ queueDue = 0
    /\ req = [t \in Tasks |-> NoReq]
    /\ lastBlockId = null
    /\ blocks = <<>>
    /\ idx = 0
    /\ slots = [t \in Tasks |-> <<>>]
    /\ stats = [t \in Tasks |-> <<>>]
    /\ nSubmitted = 0
    /\ served = 0
    /\ lastDispatchAt = now - MIN_INTERVAL
    /\ lastDispatch = {}
    /\ nRateLimited = 0
    /\ nFaults = 0
    /\ lastOutcome = {}
    /\ lastReissue = {}
    /\ sent = [t \in Tasks |-> <<>>]
    /\ appended = [t \in Tasks |-> null]
    /\ started = 0

NextIn(atOnce, outcomes, metrics, snapshots) ==
    \/ Boot
    \/ Drained
    \/ Dispatch
    \/ \E t \in Tasks, o \in outcomes : Respond(t, o)
    \/ \E t \in Tasks : Reissue(t)
    \/ \E t \in Tasks : IntervalFire(t, atOnce)
    \/ \E t \in Tasks, ok \in metrics : ListingSettles(t, ok)
    \/ \E t \in Tasks, i \in 1 .. Len(docker), snap \in snapshots : StatsSettle(t, i, snap)
    \/ Tick

\* The whole program: any settings, cycles that may overrun the period.
Init == InitIn(Settings, Pages, {<<Web>>})
Next == NextIn(2, Outcomes, BOOLEAN, {Lost, Busy})
Spec == Init /\ [][Next]_vars

\* The same program when every cycle ends before the next timer tick.
SeqNext == NextIn(1, Outcomes, BOOLEAN, {Lost, Busy})
SeqSpec == Init /\ [][SeqNext]_vars

\* ... and when, besides, every body the destination sends is JSON and no
\* socket fails: what is left to go wrong is a status.  Any number of
\* containers may be running.
WellFormed == {o \in Outcomes : o.json}
SeqJsonInit == InitIn(Settings, Pages, Hosts)
SeqJsonNext == NextIn(1, WellFormed, BOOLEAN, {Lost, Busy})
SeqJsonSpec == SeqJsonInit /\ [][SeqJsonNext]_vars

\* The collector at work: any number of containers, any snapshot, a page
\* that starts empty, and a destination that serves every request or answers
\* 429 with no Retry-After.
Steady == {Outcome("ok", TRUE, Absent), Outcome("rate", TRUE, Absent)}
CollectInit == InitIn(Settings, {{}}, Hosts)
CollectNext == NextIn(1, Steady, BOOLEAN, Snapshots)
CollectSpec == CollectInit /\ [][CollectNext]_vars

\* ... and when a timer callback that is due does run (setInterval, line 329).
FairSeqSpec == SeqSpec /\ WF_vars(\E t \in Tasks : IntervalFire(t, 1))

\* ----------------------------------------------------------------- claims
Failed == {"failedCollect", "failedSync"}
NoSyncInProgress == \A t \in Tasks : pc[t] \notin InSync

\* C1: with sync calls run one at a time on a page that held no sentinel
\* block, whenever no sync call is in progress at most one sentinel-marked
\* top-level block is live, also after a delete or an append has failed.
C1_AtMostOneSentinelBlock ==
    (SentinelBlocks(doc0) = {} /\ NoSyncInProgress)
        => Cardinality(SentinelBlocks(doc)) <= 1

\* C2: when sync is called twice in a row, both calls succeed and no 429
\* occurs, the second call sends exactly a delete and then an append, and the
\* delete is for the block the first call appended.
InARow(p, c) ==
    /\ p < c
    /\ pc[p] = "done" /\ pc[c] = "done"
    /\ \A m \in Tasks : (p < m /\ m < c) => pc[m] = "failedCollect"
C2_SecondSyncDeletesThenAppends ==
    \A p, c \in Tasks :
        (InARow(p, c) /\ nRateLimited = 0)
            => sent[c] = << Call("DELETE", "block", appended[p]), Call("PATCH", "page", null) >>
C2_TwoSyncsInARow ==
    /\ InARow(0, 1) /\ nRateLimited = 0
    /\ appended[0] # null /\ appended[1] # null

\* C3: calls made without waiting for one another, none answered 429, are
\* dispatched at least MIN_INTERVAL apart.
C3_QueuedCallsArePaced ==
    \A d \in lastDispatch : (d.behind /\ nRateLimited = 0) => d.gap >= MIN_INTERVAL

\* C4: every dispatch, a re-issue after a 429 included, comes at least
\* MIN_INTERVAL after the dispatch before it.
C4_EveryDispatchIsPaced ==
    \A d \in lastDispatch : d.gap >= MIN_INTERVAL

\* C5: calls are first dispatched in the order they were made: the i-th call
\* in line is the i-th made after the one dispatched last.
C5_DispatchedInSubmissionOrder ==
    /\ Len(notionRequestQueue) = nSubmitted - served
    /\ \A i \in DOMAIN notionRequestQueue : notionRequestQueue[i].seq = served + i
C5_TwoCallsInLineServed ==
    /\ served >= 2
    /\ \E d \in lastDispatch : d.behind /\ ~d.reissue

\* C6: a response with status 429 never makes the channel call fail.
C6_RateLimitNeverFailsTheCall ==
    \A o \in lastOutcome : o.status = 429 => o.then = "retry"

\* C7: after a 429 the request is sent again no earlier than the suggested
\* delay: Retry-After seconds when the header is a number of seconds, one
\* second when it is absent or unusable.
IsSeconds(h) == h # <<>> /\ \A i \in DOMAIN h : IsDigit(h[i])
Suggested(h) == IF IsSeconds(h) THEN ParseDigits(h, 1, 0) * 1000 ELSE 1000
C7_ReissuedNoEarlierThanSuggested ==
    \A r \in lastReissue : r.after >= Suggested(r.header)
C7_ReissuedAfterTwoSeconds ==
    \E r \in lastReissue : r.header = <<"2">>

\* C8: a response with an error status other than 429 fails the call at once
\* with an error that carries the status, whatever the body.
C8_HardErrorCarriesTheStatus ==
    \A o \in lastOutcome :
        (o.status >= 400 /\ o.status # 429) => (o.then = "reject" /\ o.carried = o.status)

MissingSetting == ~env.NOTION_TOKEN \/ ~env.NOTION_PAGE_ID
C10_MissingSettingExitsNonZero ==
    (MissingSetting /\ ~running) => exitCode # 0

\* C11: with NOTION_TOKEN or NOTION_PAGE_ID missing, no request is ever made
\* or dispatched to the destination, the timer is not registered and no
\* cycle, immediate or periodic, is started.
C11_NothingStartsWithoutSettings ==
    MissingSetting =>
        /\ nSubmitted = 0 /\ served = 0 /\ lastDispatch = {}
        /\ started = 0 /\ ~intervalOn
        /\ \A t \in Tasks : req[t].phase = "none" /\ pc[t] \notin InCycle
C11_EndedForAMissingSetting ==
    /\ MissingSetting /\ ~running
    /\ pc[0] \in {"boot", "failedStart"}

\* C12: getAllContainerStats never rejects, whatever the requests to the
\* metrics source do, the container listing included: no cycle ends in the
\* catch because collecting failed.
C12_CollectNeverFails ==
    \A t \in Tasks : pc[t] # "failedCollect"

\* C13: when the listing succeeded, the list collect returns holds one stat
\* for each listed container whose stats request succeeded and none for the
\* others, in the order of the listing whatever the order the requests
\* settled in, each under the container's display name (the first name
\* without its leading '/'), not its id.
Collected == InSync \cup {"done", "failedSync"}
ShownAs(c) == IF c = Web THEN <<"w", "e", "b">> ELSE <<"d", "b">>
Succeeded(t) == {i \in DOMAIN slots[t] : slots[t][i].state = "ok"}
C13_OneStatPerAnsweredContainerInListingOrder ==
    \A t \in Tasks :
        pc[t] \in Collected =>
            /\ Len(stats[t]) = Cardinality(Succeeded(t))
            /\ \A i \in Succeeded(t) :
                   stats[t][Cardinality({j \in Succeeded(t) : j <= i})].name = ShownAs(docker[i])
C13_SecondContainerAnsweredFirst ==
    \E t \in Tasks :
        /\ pc[t] \in Collected /\ Len(docker) = 2
        /\ Succeeded(t) = {1, 2}
        /\ slots[t][2].rank < slots[t][1].rank

\* C14: a container whose snapshot has a system CPU delta of 0 is left out of
\* the list collect returns: no stat of the list has a CPU value that is not
\* finite.
C14_NonFiniteStatIsOmitted ==
    \A t \in Tasks :
        pc[t] \in Collected =>
            \A k \in DOMAIN stats[t] : stats[t][k].cpuUsage.kind = "finite"

\* C15: in a sync call that holds a handle, the delete of the previous block,
\* failed or not, is followed by the append; the handle is empty once the
\* delete step is over; and the call succeeds exactly when the append does.
AppendCall == Call("PATCH", "page", null)
C15_FailedDeleteDoesNotAbortTheCycle ==
    [][\A t \in Tasks :
          /\ (pc[t] = "delete" /\ pc'[t] # "delete") =>
                 /\ pc'[t] = "append" /\ lastBlockId' = null
                 /\ req'[t].phase = "queued"
                 /\ Call(req'[t].method, req'[t].of, req'[t].id) = AppendCall
          /\ (pc[t] = "append" /\ pc'[t] # "append") =>
                 /\ pc'[t] \in {"done", "failedSync"}
                 /\ pc'[t] = "done" <=> (\E o \in lastOutcome' : o.then = "resolve")]_vars
C15_DoneAfterAFailedDelete ==
    \E t \in Tasks :
        /\ pc[t] = "done" /\ sent[t] = << Call("DELETE", "block", sent[t][1].id), AppendCall >>
        /\ Live(doc, sent[t][1].id)
        /\ lastBlockId = appended[t]

\* C16: the handle is cleared before the delete of the previous block is
\* attempted: while a sync call's delete is queued or in flight, the handle
\* does not hold the id of the block being deleted.
C16_HandleClearedBeforeTheDelete ==
    \A t \in Tasks : pc[t] = "delete" => lastBlockId # req[t].id

\* C17: with cycles run one at a time, after a sync call that succeeded the
\* handle holds the id of the block that call appended; the handle is always
\* empty or the id of a block this process appended; and every delete a sync
\* call sends is for such a block.
Appended == {appended[t] : t \in Tasks} \ {null}
LastSync(t) == \A u \in Tasks : u > t => pc[u] \in {"idle", "list", "stats", "failedCollect"}
C17_HandleIsABlockOfOurOwn ==
    /\ \A t \in Tasks : (pc[t] = "done" /\ LastSync(t)) =>
                             (appended[t] # null /\ lastBlockId = appended[t])
    /\ lastBlockId = null \/ lastBlockId \in Appended
    /\ \A t \in Tasks : \A k \in DOMAIN sent[t] :
           sent[t][k].method = "DELETE" => sent[t][k].id \in Appended
C17_SecondSyncRemembersItsBlock ==
    /\ pc[1] = "done" /\ Len(sent[1]) = 2
    /\ lastBlockId = appended[1] /\ appended[1] # appended[0]
    /\ doc0 # {}

\* C18: cleanupOldBlocksWithMarker, on a page whose first page of children
\* holds a quote block with the sentinel paragraph among its first children,
\* deletes that block: once it has returned no such block of the page is
\* live.  It sends a delete for no other block: every delete sent outside a
\* sync call is cleanup's, for a sentinel-marked quote block of the page, and
\* the page's other blocks stay live.
Marked == {b.id : b \in SentinelBlocks(doc0)}
C18_CleanupDeletesOnlyMarkedBlocks ==
    /\ intervalOn => \A id \in Marked : ~Live(doc, id)
    /\ \A t \in Tasks :
           (req[t].method = "DELETE" /\ pc[t] \notin InSync) =>
               (t = 0 /\ pc[t] = "cleanDel" /\ req[t].id \in Marked)
    /\ \A b \in doc0 : b.id \notin Marked => b \in doc
C18_LeftoverDeletedOthersKept ==
    /\ intervalOn /\ Leftover \in doc0
    /\ ~Live(doc, Leftover.id)
    /\ Foreign \in doc /\ Note \in doc

\* C19: destination requests are serialized, also across cycles that overlap:
\* at no time are two requests dispatched and not yet answered.
Outstanding == {t \in Tasks : req[t].phase = "sent"}
C19_OneRequestOutstanding ==
    Cardinality(Outstanding) <= 1

\* C20: nothing keeps two cycles from overlapping, and they race on the
\* handle.  Whenever the sync calls of two cycles both found the handle
\* empty and sent only their appends, nothing having failed, then once no
\* sync call is in progress the handle is one of the blocks appended, and
\* another appended block is live that the handle does not refer to: two
\* sentinel blocks are live.
FoundNoHandle(t) == pc[t] = "done" /\ sent[t] = << AppendCall >>
Untroubled == nFaults = 0 /\ nRateLimited = 0
Leaked == {id \in Appended : Live(doc, id) /\ lastBlockId # id}
C20_OverlappingSyncsLeakABlock ==
    ((\E p, c \in Tasks : p < c /\ FoundNoHandle(p) /\ FoundNoHandle(c))
     /\ Untroubled /\ NoSyncInProgress) =>
        /\ lastBlockId \in Appended /\ Live(doc, lastBlockId)
        /\ Leaked # {}
        /\ Cardinality(SentinelBlocks(doc)) >= 2
C20_LeakedDuplicate ==
    /\ FoundNoHandle(0) /\ FoundNoHandle(1) /\ Untroubled
    /\ appended[0] \in Leaked \/ appended[1] \in Leaked
    /\ Cardinality(SentinelBlocks(doc)) = 2

\* C21: cleanupOldBlocksWithMarker is not best-effort.  When one of its
\* requests (the listing, a nested listing, a delete) is rejected, startup
\* ends there: the timer is never registered and no cycle, immediate or
\* scheduled, is ever run.  When it succeeds, all its requests have been
\* answered before the timer is registered and the first sync request is made.
InCleanup == {"cleanList", "cleanKids", "cleanDel"}
NothingRan ==
    /\ ~intervalOn /\ started = 0
    /\ \A t \in Tasks : sent[t] = <<>> /\ pc[t] \notin InCycle \cup {"done"}
C21_CleanupFailureEndsStartup ==
    /\ [](pc[0] \in InCleanup \cup {"boot", "failedStart"} => NothingRan)
    /\ [][(/\ pc[0] \in InCleanup /\ req[0].phase = "sent"
           /\ req'[0].phase \notin {"sent", "backoff"}
           /\ \E o \in lastOutcome' : o.then = "reject")
              => pc'[0] = "failedStart"]_vars
C21_CleanupFailedAfterItsListing ==
    /\ pc[0] = "failedStart" /\ ~MissingSetting
    /\ served >= 2 /\ served = nSubmitted
    /\ \E o \in lastOutcome : o.then = "reject"
    /\ Live(doc, Leftover.id)

====
